---- MODULE Spec2Model ----
(***************************************************************************)
(* Step-by-step Tetris (main.py): the shape table, TetrisPiece,            *)
(* TetrisGrid and the six button handlers of StepTetrisGame.               *)
(*                                                                         *)
(* Lists are TLA+ sequences, so the Python cell self.grid[y][x] is         *)
(* grid.grid[y+1][x+1]; coordinates x, y keep their Python values.         *)
(***************************************************************************)
EXTENDS Integers, Sequences, FiniteSets, TLC

VARIABLES
    grid,    \* StepTetrisGame.grid : a TetrisGrid [width, height, grid]
    piece,   \* StepTetrisGame.piece : a TetrisPiece [shape, x, y, rot]
    score,   \* StepTetrisGame.score
    last,    \* the last call and the path it took through its handler
    nlocks,  \* pieces locked since construction or reset (bounds the run)
    nmoves   \* handler calls since the current piece was spawned (bounds the run)

vars == <<grid, piece, score, last, nlocks, nmoves>>

(***************************************************************************)
(* Bounds of the exploration.                                              *)
(***************************************************************************)
MaxLocks == 1   \* locks explored after the starting position
MaxMoves == 2   \* non-locking calls explored per piece
MaxW == 3       \* widest grid given to the TetrisGrid methods on their own
MaxH == 2       \* tallest grid given to the TetrisGrid methods on their own

(***************************************************************************)
(* Shape table.                                                            *)
(***************************************************************************)
shapes ==
    [ O |-> << <<"5","6","a","9">>, <<"6","a","9","5">>, <<"a","9","5","6">>, <<"9","5","6","a">> >>,
      I |-> << <<"4","5","6","7">>, <<"2","6","a","e">>, <<"b","a","9","8">>, <<"d","9","5","1">> >>,
      J |-> << <<"0","4","5","6">>, <<"2","1","5","9">>, <<"a","6","5","4">>, <<"8","9","5","1">> >>,
      L |-> << <<"2","6","5","4">>, <<"a","9","5","1">>, <<"8","4","5","6">>, <<"0","1","5","9">> >>,
      T |-> << <<"1","4","5","6">>, <<"6","1","5","9">>, <<"9","6","5","4">>, <<"4","9","5","1">> >>,
      Z |-> << <<"0","1","5","6">>, <<"2","6","5","9">>, <<"a","9","5","4">>, <<"8","4","5","1">> >>,
      S |-> << <<"1","2","5","4">>, <<"a","6","5","1">>, <<"8","9","5","6">>, <<"0","4","5","9">> >> ]

Kinds == DOMAIN shapes

\* int(char, 16)
HexVal(c) ==
    CASE c = "0" -> 0  [] c = "1" -> 1  [] c = "2" -> 2  [] c = "3" -> 3
      [] c = "4" -> 4  [] c = "5" -> 5  [] c = "6" -> 6  [] c = "7" -> 7
      [] c = "8" -> 8  [] c = "9" -> 9  [] c = "a" -> 10 [] c = "b" -> 11
      [] c = "c" -> 12 [] c = "d" -> 13 [] c = "e" -> 14 [] c = "f" -> 15

(***************************************************************************)
(* TetrisPiece.                                                            *)
(***************************************************************************)
TetrisPiece(shape, x, y, rot) == [shape |-> shape, x |-> x, y |-> y, rot |-> rot]

\* get_blocks that splits the hex digit with divmod(v, 8).
get_blocks_div8(p) ==
    [i \in 1..4 |->
        LET v == HexVal(shapes[p.shape][(p.rot % 4) + 1][i])
            by == v \div 8
            bx == v % 8
        IN  <<p.x + bx, p.y - by>>]

\* The blocks in the order the generator yields them; a block is <<x, y>>.
get_blocks(p) ==
    [i \in 1..4 |->
        LET v == HexVal(shapes[p.shape][(p.rot % 4) + 1][i])
            by == v \div 4
            bx == v % 4
        IN  <<p.x + bx, p.y - by>>]

\* move that adds drot without wrapping the rotation index.
move_nowrap(p, dx, dy, drot) ==
    [p EXCEPT !.x = @ + dx, !.y = @ + dy, !.rot = @ + drot]

move(p, dx, dy, drot) ==
    [p EXCEPT !.x = @ + dx, !.y = @ + dy, !.rot = (@ + drot) % 4]

(***************************************************************************)
(* TetrisGrid.                                                             *)
(***************************************************************************)
EmptyRow(w) == [c \in 1..w |-> ""]

TetrisGrid(w, h) ==
    [width |-> w, height |-> h, grid |-> [r \in 1..h |-> EmptyRow(w)]]

DefaultWidth == 10
DefaultHeight == 16

\* any(cell == '' for cell in row)
HasEmptyCell(row) == \E c \in 1..Len(row) : row[c] = ""

\* clear_full_rows that drops the full rows and pads at the bottom.
clear_full_rows_bottom(g) ==
    LET kept == SelectSeq(g.grid, HasEmptyCell)
        cleared_rows == g.height - Len(kept)
    IN  [self |-> [g EXCEPT !.grid = kept \o [i \in 1..cleared_rows |-> EmptyRow(g.width)]],
         ret  |-> cleared_rows]

\* clear_full_rows that removes the topmost full row only.
clear_full_rows_first(g) ==
    LET full == {r \in 1..Len(g.grid) : ~HasEmptyCell(g.grid[r])}
        first == IF full = {} THEN 0 ELSE CHOOSE r \in full : \A q \in full : r <= q
        kept == [i \in 1..(Len(g.grid) - (IF first = 0 THEN 0 ELSE 1)) |->
                    IF first = 0 \/ i < first THEN g.grid[i] ELSE g.grid[i + 1]]
        cleared_rows == g.height - Len(kept)
    IN  [self |-> [g EXCEPT !.grid = [i \in 1..cleared_rows |-> EmptyRow(g.width)] \o kept],
         ret  |-> cleared_rows]

\* clear_full_rows that drops the full rows and pads nothing back.
clear_full_rows_nopad(g) ==
    LET kept == SelectSeq(g.grid, HasEmptyCell)
        cleared_rows == g.height - Len(kept)
    IN  [self |-> [g EXCEPT !.grid = kept], ret |-> cleared_rows]

\* Returns the grid object after the call and the returned count.
clear_full_rows(g) ==
    LET kept == SelectSeq(g.grid, HasEmptyCell)
        cleared_rows == g.height - Len(kept)
    IN  [self |-> [g EXCEPT !.grid = [i \in 1..cleared_rows |-> EmptyRow(g.width)] \o kept],
         ret  |-> cleared_rows]

\* Python list indexing: the 1-based position list[i] denotes in a list of
\* n elements, 0 when list[i] raises IndexError.
PyIndex(n, i) ==
    IF 0 <= i /\ i < n THEN i + 1
    ELSE IF 0 - n <= i /\ i < 0 THEN n + i + 1
    ELSE 0

\* The loop body without the test 0 <= y.
FitsBlock_noneg(g, b) ==
    LET x == b[1]
        y == b[2]
        r == PyIndex(Len(g.grid), y)
        c == IF r = 0 THEN 0 ELSE PyIndex(Len(g.grid[r]), x)
    IN  IF ~(0 <= x /\ x < g.width) THEN "blocked"
        ELSE IF ~(y < g.height) THEN "blocked"
        ELSE IF r = 0 \/ c = 0 THEN "IndexError"
        ELSE IF g.grid[r][c] # "" THEN "blocked"
        ELSE "ok"

\* One pass of the loop body of piece_fits on block b:
\* "ok" (falls through), "blocked" (return False) or "IndexError".
FitsBlock(g, b) ==
    LET x == b[1]
        y == b[2]
        r == PyIndex(Len(g.grid), y)
        c == IF r = 0 THEN 0 ELSE PyIndex(Len(g.grid[r]), x)
    IN  IF ~(0 <= x /\ x < g.width) THEN "blocked"
        ELSE IF ~(0 <= y /\ y < g.height) THEN "blocked"
        ELSE IF r = 0 \/ c = 0 THEN "IndexError"
        ELSE IF g.grid[r][c] # "" THEN "blocked"
        ELSE "ok"

\* The outcome of the loop from block i on.
RECURSIVE FitsFrom(_, _, _)
FitsFrom(g, bs, i) ==
    IF i > Len(bs) THEN [ret |-> TRUE, raised |-> FALSE]
    ELSE LET o == FitsBlock(g, bs[i])
         IN  IF o = "ok" THEN FitsFrom(g, bs, i + 1)
             ELSE [ret |-> FALSE, raised |-> (o = "IndexError")]

\* piece_fits: [ret, raised]; ret is the returned value when nothing is raised.
piece_fits(g, p) == FitsFrom(g, get_blocks(p), 1)

\* place_piece that writes self.grid[x][y].
place_piece_swapped(g, p) ==
    LET bs == get_blocks(p)
        tr(i) == PyIndex(Len(g.grid), bs[i][1])
        tc(i) == IF tr(i) = 0 THEN 0 ELSE PyIndex(Len(g.grid[tr(i)]), bs[i][2])
        bad == {i \in 1..4 : tr(i) = 0 \/ tc(i) = 0}
        n == IF bad = {} THEN 4 ELSE (CHOOSE i \in bad : \A j \in bad : i <= j) - 1
        written == { <<tr(i), tc(i)>> : i \in 1..n }
    IN  [self |-> [g EXCEPT !.grid = [r \in 1..Len(g.grid) |-> [c \in 1..Len(g.grid[r]) |->
                     IF <<r, c>> \in written THEN p.shape ELSE g.grid[r][c]]]],
         raised |-> bad # {}]

\* place_piece: the grid object after the call, and whether it raised.
\* Block i is written at row tr(i), column tc(i) of the lists; the first
\* block whose index is out of range raises IndexError and ends the loop,
\* the writes made before it stay.
place_piece(g, p) ==
    LET bs == get_blocks(p)
        tr(i) == PyIndex(Len(g.grid), bs[i][2])
        tc(i) == IF tr(i) = 0 THEN 0 ELSE PyIndex(Len(g.grid[tr(i)]), bs[i][1])
        bad == {i \in 1..4 : tr(i) = 0 \/ tc(i) = 0}
        n == IF bad = {} THEN 4 ELSE (CHOOSE i \in bad : \A j \in bad : i <= j) - 1
        written == { <<tr(i), tc(i)>> : i \in 1..n }
    IN  [self |-> [g EXCEPT !.grid = [r \in 1..Len(g.grid) |-> [c \in 1..Len(g.grid[r]) |->
                     IF <<r, c>> \in written THEN p.shape ELSE g.grid[r][c]]]],
         raised |-> bad # {}]

(***************************************************************************)
(* StepTetrisGame.  Every handler is one action; update_display only reads *)
(* the state (canvas drawing), so it leaves no trace here.                 *)
(***************************************************************************)

\* What the last call did: the handler, the score it started from, whether
\* it took its undo branch, whether it locked the piece, whether the piece
\* handed to place_piece fitted the grid, how many rows were full when
\* place_piece returned, the value of cleared_rows, whether an exception
\* escaped.
Log(op, undone, locked, fitted, full, cleared, raised) ==
    [op |-> op, before |-> score, undone |-> undone, locked |-> locked,
     fitted |-> fitted, full |-> full, cleared |-> cleared, raised |-> raised]

\* get_next_piece once random.choice has picked shape.
get_next_piece(shape) == TetrisPiece(shape, 4, 1, 0)

\* update_score that counts one clear per call.
update_score_flat(s, cleared_rows) == s + (IF cleared_rows > 0 THEN 100 ELSE 0)

\* update_score that subtracts the points.
update_score_minus(s, cleared_rows) == s - cleared_rows * 100

\* update_score: the new value of self.score.
update_score(s, cleared_rows) == s + cleared_rows * 100

\* The body shared by move_left, move_right and rotate_piece, taking two
\* steps at a time.
TryMove_double(op, dx, drot) ==
    LET p1 == move(piece, 2 * dx, 0, 2 * drot)
        f  == piece_fits(grid, p1)
    IN  /\ piece' = IF f.raised \/ f.ret THEN p1 ELSE move(p1, 0 - 2 * dx, 0, 0 - 2 * drot)
        /\ last' = Log(op, ~f.raised /\ ~f.ret, FALSE, FALSE, 0, 0, f.raised)

\* The body shared by move_left, move_right and rotate_piece, without the undo.
TryMove_keep(op, dx, drot) ==
    LET p1 == move(piece, dx, 0, drot)
        f  == piece_fits(grid, p1)
    IN  /\ piece' = p1
        /\ last' = Log(op, ~f.raised /\ ~f.ret, FALSE, FALSE, 0, 0, f.raised)

\* The body shared by move_left, move_right and rotate_piece, whose undo
\* adds the same step again instead of taking it back.
TryMove_redo(op, dx, drot) ==
    LET p1 == move(piece, dx, 0, drot)
        f  == piece_fits(grid, p1)
    IN  /\ piece' = IF f.raised \/ f.ret THEN p1 ELSE move(p1, dx, 0, drot)
        /\ last' = Log(op, ~f.raised /\ ~f.ret, FALSE, FALSE, 0, 0, f.raised)

\* The body shared by move_left, move_right and rotate_piece:
\* move, test, undo with the opposite step.
TryMove(op, dx, drot) ==
    LET p1 == move(piece, dx, 0, drot)
        f  == piece_fits(grid, p1)
    IN  /\ piece' = IF f.raised \/ f.ret THEN p1 ELSE move(p1, 0 - dx, 0, 0 - drot)
        /\ last' = Log(op, ~f.raised /\ ~f.ret, FALSE, FALSE, 0, 0, f.raised)

Playing == nlocks < MaxLocks /\ nmoves < MaxMoves

move_left ==
    /\ Playing
    /\ TryMove("move_left", -1, 0)
    /\ nmoves' = nmoves + 1
    /\ UNCHANGED <<grid, score, nlocks>>

move_right ==
    /\ Playing
    /\ TryMove("move_right", 1, 0)
    /\ nmoves' = nmoves + 1
    /\ UNCHANGED <<grid, score, nlocks>>

rotate_piece ==
    /\ Playing
    /\ TryMove("rotate_piece", 0, 1)
    /\ nmoves' = nmoves + 1
    /\ UNCHANGED <<grid, score, nlocks>>

\* Row r (1-based) has no empty cell.
IsFull(g, r) == \A c \in 1..g.width : g.grid[r][c] # ""

\* The rows (1-based) that have no empty cell.
FullRows(g) == { r \in 1..Len(g.grid) : IsFull(g, r) }

\* place_piece, clear_full_rows, update_score, get_next_piece on piece p,
\* as step_down and drop_piece run them.
LockPiece(op, p) ==
    LET fitted == piece_fits(grid, p).ret
        pl == place_piece(grid, p)
        cl == clear_full_rows(pl.self)
    IN  IF pl.raised
        THEN /\ grid' = pl.self
             /\ piece' = p
             /\ score' = score
             /\ last' = Log(op, TRUE, FALSE, fitted, Cardinality(FullRows(pl.self)), 0, TRUE)
             /\ UNCHANGED <<nlocks, nmoves>>
        ELSE /\ grid' = cl.self
             /\ score' = update_score(score, cl.ret)
             /\ last' = Log(op, TRUE, TRUE, fitted, Cardinality(FullRows(pl.self)), cl.ret, FALSE)
             /\ nlocks' = nlocks + 1
             /\ nmoves' = 0
             /\ \E shape \in Kinds : piece' = get_next_piece(shape)

\* step_down that tests the piece where it stands and leaves it there.
step_down_still ==
    /\ Playing
    /\ LET p1 == move(piece, 0, 0, 0)
           f  == piece_fits(grid, p1)
       IN  IF f.raised \/ f.ret
           THEN /\ piece' = p1
                /\ last' = Log("step_down", FALSE, FALSE, FALSE, 0, 0, f.raised)
                /\ nmoves' = nmoves + 1
                /\ UNCHANGED <<grid, score, nlocks>>
           ELSE LockPiece("step_down", move(p1, 0, -1, 0))

step_down ==
    /\ Playing
    /\ LET p1 == move(piece, 0, 1, 0)
           f  == piece_fits(grid, p1)
       IN  IF f.raised \/ f.ret
           THEN /\ piece' = p1
                /\ last' = Log("step_down", FALSE, FALSE, FALSE, 0, 0, f.raised)
                /\ nmoves' = nmoves + 1
                /\ UNCHANGED <<grid, score, nlocks>>
           ELSE LockPiece("step_down", move(p1, 0, -1, 0))

\* A loop that tests the row below the piece instead of the piece's own row.
Descend_ahead(g, p) ==
    LET top == IF p.y > g.height + 3 THEN p.y ELSE g.height + 3
        stops == {y \in p.y..top : ~piece_fits(g, [p EXCEPT !.y = y + 1]).ret}
    IN  [p EXCEPT !.y = CHOOSE y \in stops : \A z \in stops : y <= z]

\* The piece when the while loop of drop_piece exits: the piece at the first
\* y from its own on at which it does not fit.  No piece fits at
\* y >= height + 3, where all its blocks are below the grid, so the loop exits.
Descend(g, p) ==
    LET top == IF p.y > g.height + 3 THEN p.y ELSE g.height + 3
        stops == {y \in p.y..top : ~piece_fits(g, [p EXCEPT !.y = y]).ret}
    IN  [p EXCEPT !.y = CHOOSE y \in stops : \A z \in stops : y <= z]

drop_piece ==
    /\ nlocks < MaxLocks
    /\ LockPiece("drop_piece", move(Descend(grid, piece), 0, -1, 0))

\* reset_game without the line that resets the score.
reset_game_keeps_score ==
    /\ \E shape \in Kinds : piece' = get_next_piece(shape)
    /\ grid' = TetrisGrid(DefaultWidth, DefaultHeight)
    /\ score' = score
    /\ last' = Log("reset_game", FALSE, FALSE, FALSE, 0, 0, FALSE)
    /\ nlocks' = 0
    /\ nmoves' = 0

reset_game ==
    /\ \E shape \in Kinds : piece' = get_next_piece(shape)
    /\ grid' = TetrisGrid(DefaultWidth, DefaultHeight)
    /\ score' = 0
    /\ last' = Log("reset_game", FALSE, FALSE, FALSE, 0, 0, FALSE)
    /\ nlocks' = 0
    /\ nmoves' = 0


(***************************************************************************)
(* Starting positions.  The game is constructed on an empty grid; the      *)
(* other two positions are boards reached from it by the play written in   *)
(* their definitions, so that a lock that clears rows and a spawn onto a   *)
(* full column are within a few calls of the start.                        *)
(***************************************************************************)

\* The grid after a piece of the given shape is stepped down twice from its
\* spawn (y = 3, where every rotation fits when rows 0..3 are free), rotated
\* to rot, moved sideways to x along the free rows, and dropped.
Landed(g, shape, x, rot) ==
    LET p == move(Descend(g, TetrisPiece(shape, x, 3, rot)), 0, -1, 0)
    IN  clear_full_rows(place_piece(g, p).self).self

EmptyBoard == TetrisGrid(DefaultWidth, DefaultHeight)

\* Rows 14 and 15 full but for a hole the shape of a J at its spawn column:
\* two I pieces flat on the left, a J and an O on the right.
TwoRowBoard ==
    Landed(Landed(Landed(Landed(EmptyBoard, "I", 0, 0), "I", 0, 0), "J", 5, 2), "O", 7, 0)

\* Column 6 full from top to bottom: four upright I pieces on top of each other.
TowerBoard ==
    Landed(Landed(Landed(Landed(EmptyBoard, "I", 4, 1), "I", 4, 1), "I", 4, 1), "I", 4, 1)

StartBoards == {EmptyBoard, TwoRowBoard, TowerBoard}

Init ==
    /\ grid \in StartBoards
    /\ \E shape \in Kinds : piece = get_next_piece(shape)
    /\ score = 0
    /\ last = [Log("init", FALSE, FALSE, FALSE, 0, 0, FALSE) EXCEPT !.before = 0]
    /\ nlocks = 0
    /\ nmoves = 0

Next ==
    \/ move_left
    \/ move_right
    \/ rotate_piece
    \/ step_down
    \/ drop_piece
    \/ reset_game

Spec == Init /\ [][Next]_vars


(***************************************************************************)
(* The TetrisGrid methods on their own: every grid of at most MaxW by MaxH *)
(* cells over an empty and a locked cell value, one method call on it.     *)
(***************************************************************************)
TestCells == {"", "T"}

TestGrids ==
    UNION { { [width |-> w, height |-> h, grid |-> m] :
                m \in [1..h -> [1..w -> TestCells]] } :
            w \in 1..MaxW, h \in 1..MaxH }

\* Pieces around and inside such a grid, on both sides of every border.
TestPieces ==
    { TetrisPiece(shape, x, y, rot) :
        shape \in Kinds, x \in -1..(MaxW - 1), y \in 0..MaxH, rot \in 0..3 }

InitGrid ==
    /\ grid \in TestGrids
    /\ piece = TetrisPiece("O", 0, 0, 0)
    /\ score = 0
    /\ last = [Log("init", FALSE, FALSE, FALSE, 0, 0, FALSE) EXCEPT !.before = 0]
    /\ nlocks = 0
    /\ nmoves = 0

call_clear_full_rows ==
    /\ last.op = "init"
    /\ LET cl == clear_full_rows(grid)
       IN  /\ grid' = cl.self
           /\ last' = Log("clear_full_rows", FALSE, FALSE, FALSE, 0, cl.ret, FALSE)
    /\ UNCHANGED <<piece, score, nlocks, nmoves>>

call_piece_fits ==
    /\ last.op = "init"
    /\ \E p \in TestPieces :
          LET f == piece_fits(grid, p)
          IN  /\ piece' = p
              /\ last' = Log("piece_fits", FALSE, FALSE, f.ret, 0, 0, f.raised)
    /\ UNCHANGED <<grid, score, nlocks, nmoves>>

\* place_piece on a piece that piece_fits accepts.
call_place_piece ==
    /\ last.op = "init"
    /\ \E p \in TestPieces :
          /\ piece_fits(grid, p).ret
          /\ \E pl \in {place_piece(grid, p)} :
                /\ grid' = pl.self
                /\ piece' = p
                /\ last' = Log("place_piece", FALSE, FALSE, TRUE, 0, 0, pl.raised)
    /\ UNCHANGED <<score, nlocks, nmoves>>

\* TetrisGrid(width, height) with dimensions on both sides of zero.  The
\* constructor stores its arguments and builds [[''] * width for _ in
\* range(height)]; no statement of it raises.
call_init ==
    /\ last.op = "init"
    /\ \E w \in -1..MaxW, h \in -1..MaxH :
          /\ grid' = TetrisGrid(w, h)
          /\ last' = Log("__init__", FALSE, FALSE, FALSE, 0, 0, FALSE)
    /\ UNCHANGED <<piece, score, nlocks, nmoves>>

NextGrid ==
    \/ call_clear_full_rows
    \/ call_piece_fits
    \/ call_init
    \/ call_place_piece

SpecGrid == InitGrid /\ [][NextGrid]_vars


(***************************************************************************)
(* Vocabulary of the properties, written from the grid's contents alone.   *)
(***************************************************************************)

\* The set of cells a piece occupies.
Cells(p) == { get_blocks(p)[i] : i \in 1..4 }

\* Cell <<x, y>> lies on the grid and is empty.
FreeCell(g, b) ==
    /\ 0 <= b[1] /\ b[1] < g.width
    /\ 0 <= b[2] /\ b[2] < g.height
    /\ g.grid[b[2] + 1][b[1] + 1] = ""

\* Every cell of the piece lies on the grid and is empty.
Fits(g, p) == \A b \in Cells(p) : FreeCell(g, b)

\* The grid with the piece's cells holding its kind and every other cell as it was.
WithPiece(g, p) ==
    [g EXCEPT !.grid = [r \in 1..Len(g.grid) |-> [c \in 1..Len(g.grid[r]) |->
        IF <<c - 1, r - 1>> \in Cells(p) THEN p.shape ELSE g.grid[r][c]]]]

\* The piece one row lower.
Below(p) == [p EXCEPT !.y = @ + 1]

\* The grid and the score once step_down, called again and again from
\* grid g, piece p and score s, has locked p.
RECURSIVE StepDownUntilLock(_, _, _)
StepDownUntilLock(g, p, s) ==
    IF piece_fits(g, Below(p)).ret
    THEN StepDownUntilLock(g, Below(p), s)
    ELSE LET cl == clear_full_rows(place_piece(g, p).self)
         IN  [grid |-> cl.self, score |-> update_score(s, cl.ret)]

Placing == last.op \in {"step_down", "drop_piece"} /\ last.undone

(***************************************************************************)
(* C1: whenever step_down or drop_piece calls place_piece, the piece it    *)
(* places fits the grid at that moment (all four cells on the grid and     *)
(* empty).                                                                 *)
(***************************************************************************)
C1_PlacedPieceFits == Placing => last.fitted

(***************************************************************************)
(* C2: drop_piece leaves the grid and the score that repeated step_down    *)
(* calls, up to and including the first that locks, leave.                 *)
(***************************************************************************)
C2_DropIsStepDowns ==
    [][last'.op = "drop_piece" =>
          \E r \in {StepDownUntilLock(grid, piece, score)} :
             grid' = r.grid /\ score' = r.score]_vars

(***************************************************************************)
(* C3: a move_left, move_right or rotate_piece whose attempted placement   *)
(* does not fit leaves x, y and rotation exactly as they were and raises   *)
(* nothing.                                                                *)
(***************************************************************************)
Attempt(op, p) ==
    CASE op = "move_left"    -> [p EXCEPT !.x = @ - 1]
      [] op = "move_right"   -> [p EXCEPT !.x = @ + 1]
      [] op = "rotate_piece" -> [p EXCEPT !.rot = (@ + 1) % 4]

C3_RejectedMoveReverts ==
    [][(/\ last'.op \in {"move_left", "move_right", "rotate_piece"}
        /\ ~Fits(grid, Attempt(last'.op, piece)))
       => (piece' = piece /\ ~last'.raised)]_vars

\* A rotation was rejected and the piece is back at rotation 0.
C3_Witness ==
    /\ last.op = "rotate_piece" /\ last.undone
    /\ piece.rot = 0 /\ ~Fits(grid, Attempt("rotate_piece", piece))

(***************************************************************************)
(* C4: step_down either moves the piece one row down and changes nothing   *)
(* else (when the piece one row lower fits), or locks the piece at the     *)
(* position it had, clears the full rows, adds 100 per cleared row and     *)
(* spawns a piece; never both, never neither.                              *)
(***************************************************************************)
C4_StepDownOneOfTwo ==
    [][last'.op = "step_down" =>
          IF Fits(grid, Below(piece))
          THEN piece' = Below(piece) /\ grid' = grid /\ score' = score
          ELSE \E placed \in {WithPiece(grid, piece)} :
                   /\ grid' = clear_full_rows(placed).self
                   /\ score' = score + 100 * Cardinality(FullRows(placed))
                   /\ \E shape \in Kinds : piece' = get_next_piece(shape)]_vars


(***************************************************************************)
(* C5: on a grid with exactly k full rows, clear_full_rows returns k and   *)
(* leaves height rows: k empty rows on top, then the rows that were not    *)
(* full, in their order; with k = 0 the grid is unchanged.                 *)
(***************************************************************************)
RECURSIVE RowsNotFull(_, _)
RowsNotFull(g, r) ==
    IF r > Len(g.grid) THEN <<>>
    ELSE (IF IsFull(g, r) THEN <<>> ELSE <<g.grid[r]>>) \o RowsNotFull(g, r + 1)

C5_ClearFullRows ==
    [][last'.op = "clear_full_rows" =>
          LET k == Cardinality(FullRows(grid))
              h == grid.height
          IN  /\ last'.cleared = k
              /\ grid'.height = h /\ grid'.width = grid.width
              /\ Len(grid'.grid) = h
              /\ \A r \in 1..k : grid'.grid[r] = [c \in 1..grid.width |-> ""]
              /\ SubSeq(grid'.grid, k + 1, h) = RowsNotFull(grid, 1)
              /\ (k = 0 => grid' = grid)]_vars

\* One of two rows was cleared and the row that stayed holds a cell.
C5_Witness ==
    /\ last.op = "clear_full_rows" /\ last.cleared = 1
    /\ grid.height = 2 /\ \E c \in 1..grid.width : grid.grid[2][c] # ""

(***************************************************************************)
(* C6: piece_fits returns true exactly when each of the piece's four cells *)
(* has 0 <= x < width, 0 <= y < height and an empty grid cell, and raises  *)
(* nothing whatever the coordinates.                                       *)
(***************************************************************************)
C6_PieceFits ==
    last.op = "piece_fits" => (last.fitted = Fits(grid, piece) /\ ~last.raised)

\* A piece that fits a grid holding locked cells.
C6_Witness ==
    /\ last.op = "piece_fits" /\ last.fitted
    /\ \E r \in 1..grid.height : \E c \in 1..grid.width : grid.grid[r][c] # ""

(***************************************************************************)
(* C7: a lock by step_down or drop_piece that completes exactly k rows     *)
(* adds exactly 100 * k to the score, once; with k = 0 the score stays.    *)
(***************************************************************************)
C7_ScorePerClearedRow ==
    last.locked => score = last.before + 100 * last.full

\* A drop completed two rows at once and the score went from 0 to 200.
C7_Witness == last.op = "drop_piece" /\ last.locked /\ last.full = 2 /\ score = 200

(***************************************************************************)
(* C8: the score is a non-negative integer, and no call but reset_game     *)
(* lowers it.                                                              *)
(***************************************************************************)
C8_ScoreMonotone ==
    /\ [](score \in Nat)
    /\ [][last'.op # "reset_game" => score' >= score]_vars

\* The score has grown through a lock.
C8_Witness == last.locked /\ score > last.before

(***************************************************************************)
(* C9: after reset_game every cell of a 10 x 16 grid is empty, the score   *)
(* is 0 and the piece is one of the seven kinds at x = 4, y = 1,           *)
(* rotation 0.                                                             *)
(***************************************************************************)
C9_ResetState ==
    last.op = "reset_game" =>
        /\ grid.width = 10 /\ grid.height = 16 /\ Len(grid.grid) = 16
        /\ \A r \in 1..16 : Len(grid.grid[r]) = 10 /\ \A c \in 1..10 : grid.grid[r][c] = ""
        /\ score = 0
        /\ piece.shape \in {"O", "I", "J", "L", "T", "S", "Z"}
        /\ piece.x = 4 /\ piece.y = 1 /\ piece.rot = 0

\* reset_game was called on a game that had locked a piece and scored.
C9_Witness == last.op = "reset_game" /\ last.before = 200 /\ score = 0

(***************************************************************************)
(* C10: on the empty 10 x 16 grid with piece I at x = 4, y = 1, rotation   *)
(* 0, drop_piece leaves exactly four occupied cells, all holding I, in     *)
(* row 15 at columns 4..7, and leaves the score at 0.                      *)
(***************************************************************************)
\* The cells <<x, y>> of the grid that are not empty.
Occupied(g) ==
    { b \in (0..(g.width - 1)) \X (0..(Len(g.grid) - 1)) : g.grid[b[2] + 1][b[1] + 1] # "" }

C10_DropIOnEmptyGrid ==
    [][(/\ last'.op = "drop_piece"
        /\ Occupied(grid) = {} /\ grid.width = 10 /\ grid.height = 16
        /\ piece = [shape |-> "I", x |-> 4, y |-> 1, rot |-> 0]
        /\ score = 0)
       => (/\ Occupied(grid') = {<<4, 15>>, <<5, 15>>, <<6, 15>>, <<7, 15>>}
           /\ \A b \in Occupied(grid') : grid'.grid[b[2] + 1][b[1] + 1] = "I"
           /\ score' = 0)]_vars

\* The I piece lies in the bottom row after a drop and nothing else is locked.
C10_Witness ==
    /\ last.op = "drop_piece" /\ last.fitted /\ score = 0
    /\ Occupied(grid) = {<<4, 15>>, <<5, 15>>, <<6, 15>>, <<7, 15>>}
    /\ grid.grid[16][5] = "I"

(***************************************************************************)
(* C11: a piece freshly spawned at x = 4, y = 1, rotation 0 is not clipped *)
(* by the grid, whatever its kind: each of its four cells has              *)
(* 0 <= x < width and 0 <= y < height.                                     *)
(***************************************************************************)
\* The current piece is the one get_next_piece returned to the last call.
Spawned == last.op \in {"init", "reset_game"} \/ last.locked

C11_SpawnNotClipped ==
    Spawned =>
        \A b \in Cells(piece) :
            /\ 0 <= b[1] /\ b[1] < grid.width
            /\ 0 <= b[2] /\ b[2] < grid.height

(***************************************************************************)
(* C12: for every kind and every starting rotation, if all four rotation   *)
(* states of the piece at its (x, y) fit the grid, four rotate_piece calls *)
(* in a row bring the piece back to its rotation index and to its set of   *)
(* occupied cells, with x and y unchanged.                                 *)
(***************************************************************************)
\* self.piece after rotate_piece on grid g with self.piece = p.
Rotate(g, p) ==
    LET p1 == move(p, 0, 0, 1)
        f  == piece_fits(g, p1)
    IN  IF f.raised \/ f.ret THEN p1 ELSE move(p1, 0, 0, -1)

AllRotationsFit(g, p) == \A r \in 0..3 : Fits(g, [p EXCEPT !.rot = r])

C12_RotateFourTimes ==
    \A r0 \in 0..3 :
        LET p0 == [piece EXCEPT !.rot = r0]
        IN  AllRotationsFit(grid, p0) =>
                \E p4 \in {Rotate(grid, Rotate(grid, Rotate(grid, Rotate(grid, p0))))} :
                    /\ p4.rot = p0.rot
                    /\ Cells(p4) = Cells(p0)
                    /\ p4.x = p0.x
                    /\ p4.y = p0.y

\* A piece two rows below its spawn with room for all four rotations, whose
\* rotation changes its cells and comes back after four calls.
C12_Witness ==
    /\ piece.y = 3
    /\ piece.shape = "I"
    /\ AllRotationsFit(grid, piece)
    /\ Cells(Rotate(grid, piece)) # Cells(piece)
    /\ Rotate(grid, Rotate(grid, Rotate(grid, Rotate(grid, piece)))) = piece

(***************************************************************************)
(* C13: in every reachable state the grid has exactly height rows of       *)
(* exactly width cells each, every cell is empty or holds one of the 7     *)
(* shape kinds, and the dimensions stay those of construction (10 x 16)    *)
(* through every action, row-clearing locks included.                      *)
(***************************************************************************)
C13_GridShape ==
    /\ grid.width = DefaultWidth
    /\ grid.height = DefaultHeight
    /\ Len(grid.grid) = grid.height
    /\ \A r \in 1..Len(grid.grid) :
        /\ Len(grid.grid[r]) = grid.width
        /\ \A c \in 1..Len(grid.grid[r]) : grid.grid[r][c] \in Kinds \cup {""}

\* A lock whose rows were cleared and padded back at the top.
C13_Witness ==
    /\ last.locked
    /\ last.cleared = 2
    /\ Len(grid.grid) = 16
    /\ grid.grid[1] = EmptyRow(10)
    /\ grid.grid[2] = EmptyRow(10)

(***************************************************************************)
(* C14: constructing a grid with a non-positive width or a non-positive    *)
(* height fails at construction with an error, and yields no grid object.  *)
(***************************************************************************)
C14_InvalidDimensionsRejected ==
    (last.op = "__init__" /\ (grid.width <= 0 \/ grid.height <= 0)) => last.raised

(***************************************************************************)
(* C15: for every grid and every piece that fits it, after place_piece     *)
(* each of the piece's 4 cells is non-empty and holds the piece's kind,    *)
(* every other cell of the grid is as it was, and nothing was raised.      *)
(***************************************************************************)
C15_PlacePiece ==
    [][(last'.op = "place_piece" /\ Fits(grid, piece')) =>
          /\ ~last'.raised
          /\ \A b \in Cells(piece') :
                /\ grid'.grid[b[2] + 1][b[1] + 1] # ""
                /\ grid'.grid[b[2] + 1][b[1] + 1] = piece'.shape
          /\ grid' = WithPiece(grid, piece')]_vars

\* A J placed on a 3 x 2 grid whose two other cells are locked ones.
C15_Witness ==
    /\ last.op = "place_piece"
    /\ piece.shape = "J"
    /\ grid.width = 3 /\ grid.height = 2
    /\ \A r \in 1..2, c \in 1..3 : grid.grid[r][c] \in {"J", "T"}
    /\ Cardinality({ <<r, c>> \in (1..2) \X (1..3) : grid.grid[r][c] = "T" }) = 2

(***************************************************************************)
(* C16: for each of the 7 kinds and 4 rotation indices, get_blocks yields  *)
(* exactly 4 pairwise distinct cells, each (x + localX, y - localY) with   *)
(* localX and localY in 0..3.  get_blocks assigns nothing, so the cells    *)
(* are a function of the piece and every call yields the same ones.        *)
(***************************************************************************)
C16_GetBlocks ==
    \E bs \in {get_blocks(piece)} :
        /\ DOMAIN bs = 1..4
        /\ \A i, j \in 1..4 : i # j => bs[i] # bs[j]
        /\ Cardinality(Cells(piece)) = 4
        /\ \A i \in 1..4 :
              /\ bs[i][1] - piece.x \in 0..3
              /\ piece.y - bs[i][2] \in 0..3

\* The S piece in its last rotation, three rows tall.
C16_Witness ==
    /\ last.op = "piece_fits"
    /\ piece = TetrisPiece("S", 1, 2, 3)
    /\ Cells(piece) = { <<1, 2>>, <<1, 1>>, <<2, 1>>, <<2, 0>> }

(***************************************************************************)
(* C17: in every reachable state, that is after any action has completed,  *)
(* no row of the grid is full: the row clear that follows every lock by    *)
(* step_down or drop_piece removes all the rows the lock completed.        *)
(***************************************************************************)
C17_NoFullRow == \A r \in 1..Len(grid.grid) : HasEmptyCell(grid.grid[r])

\* A lock that completed two rows at once, both gone from the grid.
C17_Witness ==
    /\ last.locked
    /\ last.full = 2
    /\ FullRows(grid) = {}

(***************************************************************************)
(* C18: if the current piece fits the grid before a move_left, move_right, *)
(* rotate_piece, or a step_down that does not lock, it fits the grid after *)
(* it; so the current piece fails to fit only where it stands at its spawn *)
(* position, every call since the spawn having been a rejected move.       *)
(***************************************************************************)
MoveOps == {"move_left", "move_right", "rotate_piece"}

C18_FitPreserved ==
    /\ [][((last'.op \in MoveOps \/ (last'.op = "step_down" /\ ~last'.locked))
            /\ Fits(grid, piece)) => Fits(grid', piece')]_vars
    /\ [](~Fits(grid, piece) =>
            /\ piece = get_next_piece(piece.shape)
            /\ Spawned \/ (last.op \in MoveOps /\ last.undone))

\* A piece moved off the full column and refused the move back onto it.
C18_Witness ==
    /\ last.op = "move_right"
    /\ last.undone
    /\ piece.x = 3
    /\ Fits(grid, piece)
    /\ ~Fits(grid, [piece EXCEPT !.x = 4])

(***************************************************************************)
(* C19: move_left, move_right and rotate_piece leave the grid, the score   *)
(* and the piece's kind as they were, accepted or reverted.  move_left and *)
(* move_right leave y and the rotation and change x by exactly 1 when      *)
(* accepted and by nothing when reverted; rotate_piece leaves x and y and  *)
(* changes the rotation index by +1 mod 4 when accepted, by nothing when   *)
(* reverted.                                                               *)
(***************************************************************************)
C19_MoveFrame ==
    [][last'.op \in MoveOps =>
          /\ grid' = grid
          /\ score' = score
          /\ piece'.shape = piece.shape
          /\ piece'.y = piece.y
          /\ last'.op = "move_left" =>
                /\ piece'.rot = piece.rot
                /\ piece'.x = IF last'.undone THEN piece.x ELSE piece.x - 1
          /\ last'.op = "move_right" =>
                /\ piece'.rot = piece.rot
                /\ piece'.x = IF last'.undone THEN piece.x ELSE piece.x + 1
          /\ last'.op = "rotate_piece" =>
                /\ piece'.x = piece.x
                /\ piece'.rot = IF last'.undone THEN piece.rot ELSE (piece.rot + 1) % 4]_vars

\* An accepted rotation one row below the spawn.
C19_Witness ==
    /\ last.op = "rotate_piece"
    /\ ~last.undone
    /\ piece.rot = 1
    /\ piece.x = 4 /\ piece.y = 2
    /\ score = 0

(***************************************************************************)
(* C20: from every reachable state the descent of the current piece is     *)
(* bounded.  The number of consecutive step_down calls after which the     *)
(* piece locks is between 1 and height + 3; each step_down that does not   *)
(* lock lowers that number by one, and the one taken at 1 locks.  The loop *)
(* of drop_piece walks the same rows, so drop_piece always ends in a lock. *)
(***************************************************************************)
\* The least n >= 1 such that the piece n rows lower does not fit (the n-th
\* consecutive step_down locks); 0 when there is none within height + 3
\* rows or when piece_fits raises on the way.
CallsToLock(g, p) ==
    LET stops == {n \in 1..(g.height + 3) : ~piece_fits(g, move(p, 0, n, 0)).ret}
        n0 == IF stops = {} THEN 0 ELSE CHOOSE n \in stops : \A m \in stops : n <= m
    IN  IF n0 = 0 \/ \E m \in 1..n0 : piece_fits(g, move(p, 0, m, 0)).raised
        THEN 0 ELSE n0

C20_DescentBounded ==
    /\ [](CallsToLock(grid, piece) \in 1..(grid.height + 3))
    /\ [][last'.op = "step_down" =>
            \E n \in {CallsToLock(grid, piece)} :
                IF n = 1 THEN last'.locked
                ELSE /\ ~last'.locked
                     /\ piece'.y = piece.y + 1
                     /\ CallsToLock(grid', piece') = n - 1]_vars
    /\ [][last'.op = "drop_piece" => last'.locked /\ ~last'.raised]_vars

\* The I piece one step_down below its spawn on the empty grid: 15 more
\* calls until the lock on the floor.
C20_Witness ==
    /\ last.op = "step_down"
    /\ ~last.locked
    /\ piece = TetrisPiece("I", 4, 2, 0)
    /\ grid = EmptyBoard
    /\ CallsToLock(grid, piece) = 15

====
